---- MODULE Spec2Model ----
(***************************************************************************)
(* FastFile backend: the conversion route, the download route and the      *)
(* CleanupManager registry of output artifacts with their expiry timers.   *)
(*                                                                         *)
(* Every asynchronous handler is cut at its awaits: one action is the      *)
(* completion of the awaited I/O together with the synchronous code that   *)
(* runs after it, up to the next await.  Time is the wall clock in         *)
(* milliseconds; filenames are sequences of one-character strings.         *)
(***************************************************************************)
EXTENDS Integers, Sequences, FiniteSets, TLC

VARIABLES
    now,          \* Date.now(), in milliseconds
    phase,        \* startup steps, then "running" | "exited" (after SIGINT / SIGTERM)
    uploads,      \* files in config.uploadsDir: set of stored upload paths
    outFiles,     \* files in config.outputDir: filename -> request whose input it was made from
    fileRecords,  \* CleanupManager.fileRecords: filename -> [createdAt, timeout]
    timers,       \* pending setTimeout handles: [id, filename, due]
    del,          \* running deleteFile(filename) calls, by the timer that started them
    conv,         \* POST /api/convert handlers
    dl,           \* GET /api/download/:filename handlers
    evals,        \* calls of the pure functions, in order: [fn, arg, result]
    installed,    \* backends installed on the machine
    converter,    \* a converter object: its family, its capability probe, its tool flags
    jobs,         \* conversions the converter was called for
    arch,         \* ArchiveConverter.convertArchiveFormat calls
    tempDirs      \* temporary extraction directories on disk

vars == <<now, phase, uploads, outFiles, fileRecords, timers, del, conv, dl, evals,
          installed, converter, jobs, arch, tempDirs>>

\* the state of the converter objects
services == <<installed, converter, jobs, arch, tempDirs>>

----------------------------------------------------------------------------
(* Bounds of the model *)

\* number of POST /api/convert requests
NumConvert == 2
\* number of GET /api/download requests
NumDownload == 2
\* number of clock advances
MaxTicks == 3
\* number of calls of the pure functions
NumEval == 2

Convs == 1..NumConvert
Dls == 1..NumDownload

----------------------------------------------------------------------------
(* Constants of the program *)

FILE_EXPIRY_TIME == 5 * 60 * 1000

\* the clock advances in steps of half an expiry window
TickMs == FILE_EXPIRY_TIME \div 2

None == <<>>

----------------------------------------------------------------------------
(* Strings *)

RECURSIVE Join(_)
Join(cs) == IF cs = <<>> THEN "" ELSE Head(cs) \o Join(Tail(cs))

Lower(c) ==
    CASE c = "A" -> "a" [] c = "B" -> "b" [] c = "C" -> "c" [] c = "D" -> "d"
      [] c = "E" -> "e" [] c = "F" -> "f" [] c = "G" -> "g" [] c = "H" -> "h"
      [] c = "I" -> "i" [] c = "J" -> "j" [] c = "K" -> "k" [] c = "L" -> "l"
      [] c = "M" -> "m" [] c = "N" -> "n" [] c = "O" -> "o" [] c = "P" -> "p"
      [] c = "Q" -> "q" [] c = "R" -> "r" [] c = "S" -> "s" [] c = "T" -> "t"
      [] c = "U" -> "u" [] c = "V" -> "v" [] c = "W" -> "w" [] c = "X" -> "x"
      [] c = "Y" -> "y" [] c = "Z" -> "z" [] OTHER -> c

toLowerCase(s) == [i \in 1..Len(s) |-> Lower(s[i])]

startsWith(s, c) == Len(s) > 0 /\ s[1] = c

endsWith(s, t) ==
    Len(t) <= Len(s) /\ SubSeq(s, Len(s) - Len(t) + 1, Len(s)) = t

\* index of the last "." of s that is not its first character, or 0
LastDot(s) ==
    LET ds == {i \in 2..Len(s) : s[i] = "."}
    IN  IF ds = {} THEN 0 ELSE CHOOSE i \in ds : \A j \in ds : j <= i

\* path.extname of a name without directory part
extname(s) ==
    IF LastDot(s) = 0 THEN <<>> ELSE SubSeq(s, LastDot(s), Len(s))

\* path.basename(p, ext) of a name without directory part
basename(p, ext) ==
    IF ext # <<>> /\ Len(ext) < Len(p) /\ endsWith(p, ext)
    THEN SubSeq(p, 1, Len(p) - Len(ext))
    ELSE p

----------------------------------------------------------------------------
(* FileUtils *)

videoFormats ==
    {".mp4", ".avi", ".mov", ".mkv", ".webm", ".flv", ".mpeg", ".mpg",
     ".wmv", ".3gp", ".m4v", ".mts", ".m2ts", ".ts", ".ogv", ".f4v", ".gif"}

audioFormats ==
    {".mp3", ".wav", ".aac", ".flac", ".ogg", ".m4a", ".wma", ".oga",
     ".aiff", ".amr", ".opus", ".ac3", ".caf", ".dss", ".voc", ".weba"}

imageFormats ==
    {".jpg", ".jpeg", ".png", ".gif", ".bmp", ".webp", ".tiff", ".tif",
     ".heic", ".ico", ".svg", ".avif", ".psd", ".eps", ".ai", ".cr2",
     ".arw", ".dng", ".raf", ".nef", ".rw2", ".crw", ".orf", ".srw",
     ".x3f", ".dcr", ".mrw", ".3fr", ".erf", ".mef", ".mos", ".nrw",
     ".pef", ".rwl", ".srf"}

documentFormats ==
    {".pdf", ".doc", ".docx", ".odt", ".txt", ".rtf", ".html", ".htm",
     ".md", ".tex", ".djvu", ".wps", ".abw", ".pages", ".dotx"}

archiveFormats ==
    {".zip", ".tar", ".jar", ".tar.gz", ".tar.bz2", ".tar.xz", ".tgz"}

\* getFileType that compares the extension as it is written
getFileType_CaseSensitive(filename) ==
    LET extension == Join(extname(filename))
    IN  IF extension \in videoFormats THEN "video"
        ELSE IF extension \in audioFormats THEN "audio"
        ELSE IF extension \in imageFormats THEN "image"
        ELSE IF extension \in documentFormats THEN "document"
        ELSE IF extension \in archiveFormats THEN "archive"
        ELSE "unknown"

getFileType(filename) ==
    LET extension == Join(toLowerCase(extname(filename)))
    IN  IF extension \in videoFormats THEN "video"
        ELSE IF extension \in audioFormats THEN "audio"
        ELSE IF extension \in imageFormats THEN "image"
        ELSE IF extension \in documentFormats THEN "document"
        ELSE IF extension \in archiveFormats THEN "archive"
        ELSE "unknown"

isValidFileType(filename) == getFileType(filename) # "unknown"

\* the format table of a category
formatsOf(category) ==
    CASE category = "video" -> videoFormats
      [] category = "audio" -> audioFormats
      [] category = "image" -> imageFormats
      [] category = "document" -> documentFormats
      [] category = "archive" -> archiveFormats

\* getSupportedFormats()[category]: every extension of the table, ext.slice(1)
getSupportedFormats(category) == {Tail(ext) : ext \in formatsOf(category)}

\* the characters of a string
Chars(str) == [i \in 1..Len(str) |-> SubSeq(str, i, i)]

----------------------------------------------------------------------------
(* Requests the clients send *)

\* originalname of the uploaded file; None: the request carries no file
OriginalNames ==
    { <<"a", ".", "t", "x", "t">>,
      <<"b", ".", "t", "x", "t">>,
      <<"c", ".", "x", "y", "z">> }

\* the format field of the body; None: absent or empty
TargetFormats == { <<"m", "d">> }

\* output formats DocumentConverter.generateOutput can render
documentOutputs == {".txt", ".md", ".html", ".docx", ".dotx", ".rtf", ".tex", ".odt"}

\* filenames a client asks to download
DownloadNames ==
    { <<"a", ".", "m", "d">>, <<"b", ".", "m", "d">> }

----------------------------------------------------------------------------
(* CleanupManager *)

\* new Map()
EmptyMap == [x \in {} |-> None]

\* fileRecords.has(filename)
has(filename) == filename \in DOMAIN fileRecords

\* Map.delete / function restriction
Without(f, k) == [x \in DOMAIN f \ {k} |-> f[x]]

\* Map.set
With(f, k, v) == [x \in DOMAIN f \cup {k} |-> IF x = k THEN v ELSE f[x]]

\* clearTimeout(handle): a pending timer is cancelled, any other handle is ignored
clearTimeout(ts, handle) == {t \in ts : t.id # handle}

\* trackFile that leaves the timer of the record it replaces pending
trackFile_NoClear(filename, id) ==
    /\ timers' = timers \cup
                   {[id |-> id, filename |-> filename, due |-> now + FILE_EXPIRY_TIME]}
    /\ fileRecords' = With(fileRecords, filename, [createdAt |-> now, timeout |-> id])

\* trackFile(filename); id is the handle setTimeout returns
trackFile(filename, id) ==
    LET cleared == IF has(filename)
                   THEN clearTimeout(timers, fileRecords[filename].timeout)
                   ELSE timers
    IN  /\ timers' = cleared \cup
                       {[id |-> id, filename |-> filename, due |-> now + FILE_EXPIRY_TIME]}
        /\ fileRecords' = With(fileRecords, filename, [createdAt |-> now, timeout |-> id])

\* isFileExpired that takes an untracked filename for a fresh one
isFileExpired_UntrackedFresh(filename) ==
    IF ~has(filename)
    THEN FALSE
    ELSE now - fileRecords[filename].createdAt > FILE_EXPIRY_TIME

\* isFileExpired that compares with >=
isFileExpired_AtWindow(filename) ==
    IF ~has(filename)
    THEN TRUE
    ELSE now - fileRecords[filename].createdAt >= FILE_EXPIRY_TIME

\* isFileExpired(filename)
isFileExpired(filename) ==
    IF ~has(filename)
    THEN TRUE
    ELSE now - fileRecords[filename].createdAt > FILE_EXPIRY_TIME

\* stopTracking that deletes the record and leaves its timer pending
stopTracking_NoClear(filename) ==
    IF has(filename)
    THEN /\ timers' = timers
         /\ fileRecords' = Without(fileRecords, filename)
    ELSE UNCHANGED <<timers, fileRecords>>

\* stopTracking(filename)
stopTracking(filename) ==
    IF has(filename)
    THEN /\ timers' = clearTimeout(timers, fileRecords[filename].timeout)
         /\ fileRecords' = Without(fileRecords, filename)
    ELSE UNCHANGED <<timers, fileRecords>>

\* deleteFile, lines 105-110: remove the record of filename from tracking
removeFromTracking(filename) ==
    IF has(filename)
    THEN /\ timers' = clearTimeout(timers, fileRecords[filename].timeout)
         /\ fileRecords' = Without(fileRecords, filename)
    ELSE UNCHANGED <<timers, fileRecords>>

\* cleanup that empties the registry and leaves the timers pending
cleanup_KeepTimers ==
    /\ timers' = timers
    /\ fileRecords' = EmptyMap

\* cleanup()
cleanup ==
    /\ timers' = {t \in timers : \A f \in DOMAIN fileRecords : fileRecords[f].timeout # t.id}
    /\ fileRecords' = EmptyMap

----------------------------------------------------------------------------
(* The expiry timer and deleteFile *)

\* the timer callback of trackFile starts deleteFile(filename): fs.pathExists is awaited
TimerFire(t) ==
    /\ phase = "running"
    /\ t \in timers
    /\ now >= t.due
    /\ timers' = timers \ {t}
    /\ del' = With(del, t.id, [filename |-> t.filename, pc |-> "pathExists"])
    /\ UNCHANGED <<now, phase, uploads, outFiles, fileRecords, conv, dl, evals, services>>

\* fs.pathExists answers; a present file is removed next, an absent one is not
DeletePathExists(id) ==
    /\ phase = "running"
    /\ id \in DOMAIN del
    /\ del[id].pc = "pathExists"
    /\ IF del[id].filename \in DOMAIN outFiles
       THEN /\ del' = [del EXCEPT ![id].pc = "remove"]
            /\ UNCHANGED <<timers, fileRecords>>
       ELSE /\ removeFromTracking(del[id].filename)
            /\ del' = Without(del, id)
    /\ UNCHANGED <<now, phase, uploads, outFiles, conv, dl, evals, services>>

\* fs.remove ends: the file is gone and the record is removed, or it threw
DeleteRemove(id) ==
    /\ phase = "running"
    /\ id \in DOMAIN del
    /\ del[id].pc = "remove"
    /\ \/ /\ outFiles' = Without(outFiles, del[id].filename)
          /\ removeFromTracking(del[id].filename)
       \/ UNCHANGED <<outFiles, timers, fileRecords>>
    /\ del' = Without(del, id)
    /\ UNCHANGED <<now, phase, uploads, conv, dl, evals, services>>

----------------------------------------------------------------------------
(* POST /api/convert *)

\* multer diskStorage filename: `${Date.now()}-${file.originalname}`
storagePath(originalname) == <<now, originalname>>

\* line 45
inputFormatOf(originalname) == toLowerCase(extname(originalname))

\* line 46
outputFormatOf(format) == IF startsWith(format, ".") THEN format ELSE <<".">> \o format

\* line 49
outputFilenameOf(originalname, format) ==
    basename(originalname, inputFormatOf(originalname)) \o outputFormatOf(format)

IdleConv ==
    [pc |-> "idle", originalname |-> None, format |-> None, path |-> None,
     outputFilename |-> None, removes |-> 0, status |-> 0, convertedName |-> None]

\* the request arrives, multer stores the upload, the handler runs to its first await
ConvertRequest(r, file, format) ==
    /\ phase = "running"
    /\ conv[r].pc = "idle"
    /\ \A q \in Convs : q < r => conv[q].pc # "idle"
    /\ IF file = None
       THEN \* no file part: req.file is undefined
            /\ conv' = [conv EXCEPT ![r] = [@ EXCEPT !.pc = "done", !.format = format,
                                                     !.status = 400]]
            /\ UNCHANGED uploads
       ELSE IF getFileType(file) = "unknown"
       THEN \* fileFilter rejects the file: nothing is stored, errorHandler answers
            /\ conv' = [conv EXCEPT ![r] = [@ EXCEPT !.pc = "done", !.originalname = file,
                                                     !.format = format, !.status = 500]]
            /\ UNCHANGED uploads
       ELSE /\ uploads' = uploads \cup {storagePath(file)}
            /\ IF format = None
               THEN conv' = [conv EXCEPT ![r] =
                        [@ EXCEPT !.pc = "done", !.originalname = file, !.format = format,
                                  !.path = storagePath(file), !.status = 400]]
               ELSE conv' = [conv EXCEPT ![r] =
                        [@ EXCEPT !.pc = IF getFileType(file) \in
                                              {"document", "spreadsheet", "presentation",
                                               "video", "audio", "image", "archive"}
                                         THEN "converting" ELSE "catchRemove",
                                  !.removes = IF getFileType(file) \in
                                              {"document", "spreadsheet", "presentation",
                                               "video", "audio", "image", "archive"}
                                         THEN 0 ELSE 1,
                                  !.originalname = file, !.format = format,
                                  !.path = storagePath(file),
                                  !.outputFilename = outputFilenameOf(file, format)]]
    /\ UNCHANGED <<now, phase, outFiles, fileRecords, timers, del, dl, evals, services>>

\* DocumentConverter.convertDocument can succeed: the input is readable and
\* generateOutput knows the output format
canConvert(r) ==
    /\ conv[r].path \in uploads
    /\ Join(outputFormatOf(conv[r].format)) \in documentOutputs

\* the converter ends: it wrote outputPath and returned it, or it threw
ConverterEnd(r) ==
    /\ phase = "running"
    /\ conv[r].pc = "converting"
    /\ \/ /\ canConvert(r)
          /\ outFiles' = With(outFiles, conv[r].outputFilename, r)
          /\ conv' = [conv EXCEPT ![r].pc = "removeInput", ![r].removes = @ + 1]
       \/ /\ conv' = [conv EXCEPT ![r].pc = "catchRemove", ![r].removes = @ + 1]
          /\ UNCHANGED outFiles
    /\ UNCHANGED <<now, phase, uploads, fileRecords, timers, del, dl, evals, services>>

\* a handler that sends the success response and does not call trackFile
ConvertRemoveInput_NoTrack(r) ==
    /\ phase = "running"
    /\ conv[r].pc = "removeInput"
    /\ \/ /\ uploads' = uploads \ {conv[r].path}
          /\ conv' = [conv EXCEPT ![r].pc = "done", ![r].status = 200,
                                  ![r].convertedName = conv[r].outputFilename]
       \/ /\ conv' = [conv EXCEPT ![r].pc = "catchRemove", ![r].removes = @ + 1]
          /\ UNCHANGED uploads
    /\ UNCHANGED <<now, phase, outFiles, del, dl, fileRecords, timers, evals, services>>

\* fs.remove(inputPath) of line 108 ends: the output is tracked and the success
\* response sent, or fs.remove threw and the catch block runs
ConvertRemoveInput(r) ==
    /\ phase = "running"
    /\ conv[r].pc = "removeInput"
    /\ \/ /\ uploads' = uploads \ {conv[r].path}
          /\ trackFile(conv[r].outputFilename, r)
          /\ conv' = [conv EXCEPT ![r].pc = "done", ![r].status = 200,
                                  ![r].convertedName = conv[r].outputFilename]
       \/ /\ conv' = [conv EXCEPT ![r].pc = "catchRemove", ![r].removes = @ + 1]
          /\ UNCHANGED <<uploads, fileRecords, timers>>
    /\ UNCHANGED <<now, phase, outFiles, del, dl, evals, services>>

\* fs.remove(req.file.path) of line 129 ends, its error swallowed; 500 is sent
ConvertCatchRemove(r) ==
    /\ phase = "running"
    /\ conv[r].pc = "catchRemove"
    /\ \/ uploads' = uploads \ {conv[r].path}
       \/ UNCHANGED uploads
    /\ conv' = [conv EXCEPT ![r].pc = "done", ![r].status = 500]
    /\ UNCHANGED <<now, phase, outFiles, fileRecords, timers, del, dl, evals, services>>

----------------------------------------------------------------------------
(* GET /api/download/:filename *)

IdleDl == [pc |-> "idle", filename |-> None, status |-> 0, content |-> 0]

\* the request arrives: the expiry check, then fs.pathExists is awaited
DownloadRequest(d, filename) ==
    /\ phase = "running"
    /\ dl[d].pc = "idle"
    /\ \A q \in Dls : q < d => dl[q].pc # "idle"
    /\ IF isFileExpired(filename)
       THEN dl' = [dl EXCEPT ![d] = [@ EXCEPT !.pc = "done", !.filename = filename,
                                               !.status = 410]]
       ELSE dl' = [dl EXCEPT ![d] = [@ EXCEPT !.pc = "pathExists", !.filename = filename]]
    /\ UNCHANGED <<now, phase, uploads, outFiles, fileRecords, timers, del, conv, evals, services>>

\* fs.pathExists answers: 404, or fs.stat is awaited
DownloadPathExists(d) ==
    /\ phase = "running"
    /\ dl[d].pc = "pathExists"
    /\ IF dl[d].filename \notin DOMAIN outFiles
       THEN dl' = [dl EXCEPT ![d].pc = "done", ![d].status = 404]
       ELSE dl' = [dl EXCEPT ![d].pc = "stat"]
    /\ UNCHANGED <<now, phase, uploads, outFiles, fileRecords, timers, del, conv, evals, services>>

\* fs.stat answers: it threw (500 from the catch block), or the headers are set
\* and the read stream is created
DownloadStat(d) ==
    /\ phase = "running"
    /\ dl[d].pc = "stat"
    /\ IF dl[d].filename \notin DOMAIN outFiles
       THEN dl' = [dl EXCEPT ![d].pc = "done", ![d].status = 500]
       ELSE dl' = [dl EXCEPT ![d].pc = "open"]
    /\ UNCHANGED <<now, phase, uploads, outFiles, fileRecords, timers, del, conv, evals, services>>

\* the read stream opens the file: 'error' (500), or the file streams
DownloadOpen(d) ==
    /\ phase = "running"
    /\ dl[d].pc = "open"
    /\ IF dl[d].filename \notin DOMAIN outFiles
       THEN dl' = [dl EXCEPT ![d].pc = "done", ![d].status = 500]
       ELSE dl' = [dl EXCEPT ![d].pc = "streaming", ![d].status = 200,
                             ![d].content = outFiles[dl[d].filename]]
    /\ UNCHANGED <<now, phase, uploads, outFiles, fileRecords, timers, del, conv, evals, services>>

\* the stream's 'end': stopTracking, then fs.remove(filePath) is awaited
DownloadEnd(d) ==
    /\ phase = "running"
    /\ dl[d].pc = "streaming"
    /\ stopTracking(dl[d].filename)
    /\ dl' = [dl EXCEPT ![d].pc = "remove"]
    /\ UNCHANGED <<now, phase, uploads, outFiles, del, conv, evals, services>>

\* fs.remove(filePath) of line 183 ends, its error logged
DownloadRemove(d) ==
    /\ phase = "running"
    /\ dl[d].pc = "remove"
    /\ \/ outFiles' = Without(outFiles, dl[d].filename)
       \/ UNCHANGED outFiles
    /\ dl' = [dl EXCEPT ![d].pc = "done"]
    /\ UNCHANGED <<now, phase, uploads, fileRecords, timers, del, conv, evals, services>>

----------------------------------------------------------------------------
(* The converter objects: capability probe and backend chains *)

\* number of conversions a converter is called for
NumJob == 2

Jobs == 1..NumJob

Families == {"media", "presentation", "spreadsheet"}

\* the external backends a family can use, each looked for by the probe
backendsOf(family) ==
    CASE family = "media" -> {"ffmpeg", "imagemagick", "graphicsmagick", "sharp"}
      [] family = "presentation" -> {"libreoffice", "unoconv"}
      [] family = "spreadsheet" -> {"libreoffice", "xlsx"}

\* initializeCapabilities: what each awaited probe, with the synchronous
\* checks that follow it, looks for
probeSteps(family) ==
    CASE family = "media" -> <<{"ffmpeg"}, {"imagemagick"}, {"graphicsmagick", "sharp"}>>
      [] family = "presentation" -> <<{"libreoffice"}, {"unoconv"}>>
      [] family = "spreadsheet" -> <<{"libreoffice", "xlsx"}>>

\* convertTextFormats: the converter's own text conversion, which needs no
\* external backend
builtin == {"text"}

\* target formats of the conversions: media targets, a presentation target,
\* and for a spreadsheet an office target (of an .xlsx input) and a text target
jobFormats(family) ==
    CASE family = "media" -> {"mp4", "webp", "heic"}
      [] family = "presentation" -> {"odp"}
      [] family = "spreadsheet" -> {"xls", "tsv"}

\* the formats `ffmpeg -formats` lists as muxers, among the targets
ffmpegListed == {"mp4", "webp"}

\* specialFormats of needsAlternativeTool
specialFormats ==
    {"heic", "ico", "psd", "eps", "ai", "cr2", "arw", "dng", "raf", "nef", "rw2",
     "crw", "orf", "srw", "x3f", "dcr", "mrw", "3fr", "erf", "mef", "mos", "nrw",
     "pef", "rwl", "srf"}

needsAlternativeTool(format) == format \in specialFormats

\* supportedFormats of the converter: what the probe has added so far to
\* the formats the constructor starts with
supportedFormats ==
    CASE converter.family = "media" ->
            IF "ffmpeg" \in converter.tools THEN ffmpegListed ELSE {}
      [] converter.family = "presentation" ->
            IF converter.tools # {} THEN {"ppt", "pptx", "odp"} ELSE {}
      [] converter.family = "spreadsheet" ->
            {"csv", "tsv"}
               \cup (IF "libreoffice" \in converter.tools THEN {"xls", "xlsx", "ods"} ELSE {})
               \cup (IF "xlsx" \in converter.tools THEN {"xlsx", "xls"} ELSE {})

isFFmpegFormatSupported(format) == format \in supportedFormats

isImageFormat(format) ==
    format \in {"jpg", "jpeg", "png", "gif", "bmp", "webp", "tiff", "tif", "heic",
                "ico", "svg", "avif", "psd", "eps", "ai"}

\* isFormatSupported of PresentationConverter and SpreadsheetConverter
isFormatSupported(format) == format \in supportedFormats

isTextFormat(format) == format \in {"csv", "tsv"}

\* the backends the called method walks through, in its order
chainFor(family, format) ==
    CASE family = "media" ->
            IF needsAlternativeTool(format) \/ ~isFFmpegFormatSupported(format)
            THEN <<"imagemagick", "graphicsmagick", "sharp", "ffmpeg">>
            ELSE <<"ffmpeg">>
      [] family = "presentation" -> <<"libreoffice", "unoconv">>
      [] family = "spreadsheet" ->
            IF isTextFormat(format) THEN <<"text">>
            ELSE IF "libreoffice" \in converter.tools THEN <<"libreoffice">>
            ELSE <<"xlsx">>

\* the condition under which the method attempts backend
attempted(family, backend, format) ==
    CASE family = "media" ->
            \/ backend = "ffmpeg"
            \/ backend \in converter.tools /\ (backend = "sharp" => isImageFormat(format))
      [] OTHER -> backend \in converter.tools \cup builtin

\* a chain that starts with its first backend and tries a failed backend again
NextIn_Retry(family, chain, k, format) == IF k = 0 THEN 1 ELSE k

\* the position in chain of the backend attempted after position k, or 0
NextIn(family, chain, k, format) ==
    LET later == {i \in (k + 1)..Len(chain) : attempted(family, chain[i], format)}
    IN  IF later = {} THEN 0 ELSE CHOOSE i \in later : \A m \in later : i <= m

\* an error that carries the message of the failed backend
chainError_Backend(family, chain) == "backend"

\* the error thrown when the last attempt has failed; "backend": the error
\* of the failed backend itself
chainError(family, chain) ==
    CASE family = "media" /\ Len(chain) > 1 -> "noConverter"
      [] family = "presentation" -> "noConverter"
      [] OTHER -> "backend"

\* the output file of a job
jobOutput(format) == <<"a">> \o outputFormatOf(Chars(format))

IdleJob ==
    [pc |-> "idle", format |-> "", chain |-> <<>>, at |-> 0, running |-> {},
     tried |-> <<>>, flags |-> {}, status |-> 0, error |-> "none"]

\* the probe of the converter's constructor goes one await further
ProbeStep ==
    /\ phase = "running"
    /\ converter.probe < Len(probeSteps(converter.family))
    /\ converter' =
          [converter EXCEPT
              !.probe = @ + 1,
              !.tools = @ \cup (probeSteps(converter.family)[converter.probe + 1]
                                    \cap installed)]
    /\ UNCHANGED <<now, phase, uploads, outFiles, fileRecords, timers, del, conv, dl,
                   evals, installed, jobs, arch, tempDirs>>

\* the route calls the converter for job j: the format checks, then the first
\* backend is started, or the method throws and the route answers 500;
\* flags: the alternativeTools flags set at the time of the call
JobStart(j, format) ==
    /\ phase = "running"
    /\ jobs[j].pc = "idle"
    /\ \A q \in Jobs : q < j => jobs[q].pc # "idle"
    /\ LET family == converter.family
           chain == chainFor(family, format)
           k == NextIn(family, chain, 0, format)
       IN  IF family # "media" /\ ~isFormatSupported(format)
           THEN jobs' = [jobs EXCEPT ![j] = [@ EXCEPT !.pc = "done", !.format = format,
                                                     !.flags = converter.tools,
                                                     !.status = 500,
                                                     !.error = "unsupported"]]
           ELSE IF k = 0
           THEN jobs' = [jobs EXCEPT ![j] = [@ EXCEPT !.pc = "done", !.format = format,
                                                     !.flags = converter.tools,
                                                     !.chain = chain, !.status = 500,
                                                     !.error = "noConverter"]]
           ELSE jobs' = [jobs EXCEPT ![j] = [@ EXCEPT !.pc = "running",
                                                     !.format = format, !.chain = chain,
                                                     !.flags = converter.tools,
                                                     !.at = k, !.running = {chain[k]},
                                                     !.tried = <<chain[k]>>]]
    /\ UNCHANGED <<now, phase, uploads, outFiles, fileRecords, timers, del, conv, dl,
                   evals, installed, converter, arch, tempDirs>>

\* the running attempt of job j ends: the backend wrote the output, the
\* route tracks it and answers 200; or it failed, and the next backend is
\* started or the method throws and the route answers 500
AttemptEnd(j, backend) ==
    /\ phase = "running"
    /\ jobs[j].pc = "running"
    /\ backend \in jobs[j].running
    /\ \/ /\ backend \in installed \cup builtin
          /\ jobs' = [jobs EXCEPT ![j] = [@ EXCEPT !.pc = "done", !.running = {},
                                                    !.status = 200]]
          /\ outFiles' = With(outFiles, jobOutput(jobs[j].format), j)
          /\ trackFile(jobOutput(jobs[j].format), j)
       \/ /\ LET k == NextIn(converter.family, jobs[j].chain, jobs[j].at, jobs[j].format)
             IN  IF k = 0
                 THEN jobs' = [jobs EXCEPT ![j] =
                          [@ EXCEPT !.pc = "done", !.running = {}, !.status = 500,
                                    !.error = chainError(converter.family, jobs[j].chain)]]
                 ELSE jobs' = [jobs EXCEPT ![j] =
                          [@ EXCEPT !.at = k,
                                    !.running = (@ \ {backend}) \cup {jobs[j].chain[k]},
                                    !.tried = Append(@, jobs[j].chain[k])]]
          /\ UNCHANGED <<outFiles, fileRecords, timers>>
    /\ UNCHANGED <<now, phase, uploads, del, conv, dl, evals, installed, converter,
                   arch, tempDirs>>

----------------------------------------------------------------------------
(* ArchiveConverter: archive to archive conversion *)

\* supportedFormats of initializeSupportedFormats
archiveSupported == {".zip", ".jar", ".tar", ".tar.gz", ".tar.bz2", ".tar.xz", ".tgz"}

\* input formats of the conversions: extensions the classifier calls archive
ArchiveInputs == {".zip", ".tar"}

IdleArch == [pc |-> "idle", inputFormat |-> "", tempDir |-> 0, outcome |-> "none"]

\* convertArchiveFormat is called for job j: tempDir is named after
\* Date.now(), extractArchive is called and starts fs.ensureDir(extractDir),
\* where extractDir is tempDir again
ArchiveStart(j, inputFormat) ==
    /\ phase = "running"
    /\ arch[j].pc = "idle"
    /\ \A q \in Jobs : q < j => arch[q].pc # "idle"
    /\ arch' = [arch EXCEPT ![j] = [@ EXCEPT !.pc = "ensureDir",
                                             !.inputFormat = inputFormat,
                                             !.tempDir = now]]
    /\ UNCHANGED <<now, phase, uploads, outFiles, fileRecords, timers, del, conv, dl,
                   evals, installed, converter, jobs, tempDirs>>

\* fs.ensureDir ends: the directory exists, and the format check throws or
\* the extraction is started; or fs.ensureDir threw
ArchiveEnsureDir(j) ==
    /\ phase = "running"
    /\ arch[j].pc = "ensureDir"
    /\ \/ /\ tempDirs' = tempDirs \cup {arch[j].tempDir}
          /\ arch' = [arch EXCEPT ![j] =
                 IF arch[j].inputFormat \in archiveSupported
                 THEN [@ EXCEPT !.pc = "extract"]
                 ELSE [@ EXCEPT !.pc = "done", !.outcome = "threw"]]
       \/ /\ arch' = [arch EXCEPT ![j] = [@ EXCEPT !.pc = "done", !.outcome = "threw"]]
          /\ UNCHANGED tempDirs
    /\ UNCHANGED <<now, phase, uploads, outFiles, fileRecords, timers, del, conv, dl,
                   evals, installed, converter, jobs>>

\* extractZip and the writing of the summary end: createArchive is started;
\* or one of them threw, and convertArchiveFormat throws
ArchiveExtract(j) ==
    /\ phase = "running"
    /\ arch[j].pc = "extract"
    /\ \/ arch' = [arch EXCEPT ![j] = [@ EXCEPT !.pc = "create"]]
       \/ arch' = [arch EXCEPT ![j] = [@ EXCEPT !.pc = "done", !.outcome = "threw"]]
    /\ UNCHANGED <<now, phase, uploads, outFiles, fileRecords, timers, del, conv, dl,
                   evals, installed, converter, jobs, tempDirs>>

\* createArchive ends: fs.remove(tempDir) is started; or it threw, and
\* convertArchiveFormat throws
ArchiveCreate(j) ==
    /\ phase = "running"
    /\ arch[j].pc = "create"
    /\ \/ arch' = [arch EXCEPT ![j] = [@ EXCEPT !.pc = "remove"]]
       \/ arch' = [arch EXCEPT ![j] = [@ EXCEPT !.pc = "done", !.outcome = "threw"]]
    /\ UNCHANGED <<now, phase, uploads, outFiles, fileRecords, timers, del, conv, dl,
                   evals, installed, converter, jobs, tempDirs>>

\* fs.remove(tempDir) ends: the directory is gone and the result returned;
\* or fs.remove threw, and convertArchiveFormat throws
ArchiveRemove(j) ==
    /\ phase = "running"
    /\ arch[j].pc = "remove"
    /\ \/ /\ tempDirs' = tempDirs \ {arch[j].tempDir}
          /\ arch' = [arch EXCEPT ![j] = [@ EXCEPT !.pc = "done", !.outcome = "returned"]]
       \/ /\ arch' = [arch EXCEPT ![j] = [@ EXCEPT !.pc = "done", !.outcome = "threw"]]
          /\ UNCHANGED tempDirs
    /\ UNCHANGED <<now, phase, uploads, outFiles, fileRecords, timers, del, conv, dl,
                   evals, installed, converter, jobs>>

----------------------------------------------------------------------------

\* no converter under study, no job, no archive conversion
ServicesIdle ==
    /\ installed = {}
    /\ converter = [family |-> "media", probe |-> 0, tools |-> {}]
    /\ jobs = [j \in Jobs |-> IdleJob]
    /\ arch = [j \in Jobs |-> IdleArch]
    /\ tempDirs = {}

----------------------------------------------------------------------------
(* The clock and the process *)

Tick ==
    /\ phase = "running"
    /\ now < MaxTicks * TickMs
    /\ now' = now + TickMs
    /\ UNCHANGED <<phase, uploads, outFiles, fileRecords, timers, del, conv, dl, evals, services>>

\* SIGINT / SIGTERM: cleanup(), then process.exit(0): every handler and every
\* callback of the process is gone, the two directories stay as they are
Shutdown ==
    /\ phase = "running"
    /\ cleanup
    /\ phase' = "exited"
    /\ del' = EmptyMap
    /\ conv' = [r \in Convs |-> IdleConv]
    /\ dl' = [d \in Dls |-> IdleDl]
    /\ UNCHANGED <<now, uploads, outFiles, evals, services>>

Init ==
    /\ now = 0
    /\ phase = "running"
    /\ uploads = {}
    /\ outFiles = EmptyMap
    /\ fileRecords = EmptyMap
    /\ timers = {}
    /\ del = EmptyMap
    /\ conv = [r \in Convs |-> IdleConv]
    /\ dl = [d \in Dls |-> IdleDl]
    /\ evals = <<>>
    /\ ServicesIdle

Next ==
    \/ \E r \in Convs, file \in OriginalNames \cup {None}, format \in TargetFormats \cup {None} :
          ConvertRequest(r, file, format)
    \/ \E r \in Convs : ConverterEnd(r)
    \/ \E r \in Convs : ConvertRemoveInput(r)
    \/ \E r \in Convs : ConvertCatchRemove(r)
    \/ \E d \in Dls, filename \in DownloadNames : DownloadRequest(d, filename)
    \/ \E d \in Dls : DownloadPathExists(d)
    \/ \E d \in Dls : DownloadStat(d)
    \/ \E d \in Dls : DownloadOpen(d)
    \/ \E d \in Dls : DownloadEnd(d)
    \/ \E d \in Dls : DownloadRemove(d)
    \/ \E t \in timers : TimerFire(t)
    \/ \E id \in DOMAIN del : DeletePathExists(id)
    \/ \E id \in DOMAIN del : DeleteRemove(id)
    \/ Tick
    \/ Shutdown

Spec == Init /\ [][Next]_vars

----------------------------------------------------------------------------
(* The start of the process: clearDirectoriesOnStartup(), then app.listen *)

\* an upload a previous process stored and did not delete
OldUploads == { <<-1, <<"a", ".", "t", "x", "t">>>> }

\* an artifact a previous process wrote (content 0) and did not delete
OldOutputs == [f \in { <<"a", ".", "m", "d">> } |-> 0]

\* fs.emptyDir(uploadsDir) ends: the directory is empty, or it threw on an entry
\* it could not remove and the catch block ends clearDirectoriesOnStartup
SweepUploads ==
    /\ phase = "sweepUploads"
    /\ \/ /\ uploads' = {}
          /\ phase' = "sweepOutput"
       \/ /\ uploads' \in SUBSET uploads \ {{}}
          /\ phase' = "listen"
    /\ UNCHANGED <<now, outFiles, fileRecords, timers, del, conv, dl, evals, services>>

\* fs.emptyDir(outputDir) ends in the same two ways
SweepOutput ==
    /\ phase = "sweepOutput"
    /\ \/ outFiles' = EmptyMap
       \/ /\ outFiles # EmptyMap
          /\ UNCHANGED outFiles
    /\ phase' = "listen"
    /\ UNCHANGED <<now, uploads, fileRecords, timers, del, conv, dl, evals, services>>

\* startServer: clearDirectoriesOnStartup() has returned, app.listen
Listen ==
    /\ phase = "listen"
    /\ phase' = "running"
    /\ UNCHANGED <<now, uploads, outFiles, fileRecords, timers, del, conv, dl, evals, services>>

StartupInit ==
    /\ now = 0
    /\ phase = "sweepUploads"
    /\ uploads = OldUploads
    /\ outFiles = OldOutputs
    /\ fileRecords = EmptyMap
    /\ timers = {}
    /\ del = EmptyMap
    /\ conv = [r \in Convs |-> IdleConv]
    /\ dl = [d \in Dls |-> IdleDl]
    /\ evals = <<>>
    /\ ServicesIdle

StartupNext ==
    \/ SweepUploads
    \/ SweepOutput
    \/ Listen
    \/ Next

StartupSpec == StartupInit /\ [][StartupNext]_vars

----------------------------------------------------------------------------
(* One converter with its probe and the conversions it is called for *)

\* a converter of some family was just constructed on a machine that has some
\* of the family's backends installed
ChainInit ==
    /\ now = 0
    /\ phase = "running"
    /\ uploads = {}
    /\ outFiles = EmptyMap
    /\ fileRecords = EmptyMap
    /\ timers = {}
    /\ del = EmptyMap
    /\ conv = [r \in Convs |-> IdleConv]
    /\ dl = [d \in Dls |-> IdleDl]
    /\ evals = <<>>
    /\ \E family \in Families :
          /\ converter = [family |-> family, probe |-> 0, tools |-> {}]
          /\ installed \in SUBSET backendsOf(family)
    /\ jobs = [j \in Jobs |-> IdleJob]
    /\ arch = [j \in Jobs |-> IdleArch]
    /\ tempDirs = {}

ChainNext ==
    \/ ProbeStep
    \/ \E j \in Jobs, format \in jobFormats(converter.family) : JobStart(j, format)
    \/ \E j \in Jobs, backend \in backendsOf(converter.family) \cup builtin :
          AttemptEnd(j, backend)

ChainSpec == ChainInit /\ [][ChainNext]_vars

----------------------------------------------------------------------------
(* Archive to archive conversions and the clock *)

ArchiveNext ==
    \/ \E j \in Jobs, inputFormat \in ArchiveInputs : ArchiveStart(j, inputFormat)
    \/ \E j \in Jobs : ArchiveEnsureDir(j)
    \/ \E j \in Jobs : ArchiveExtract(j)
    \/ \E j \in Jobs : ArchiveCreate(j)
    \/ \E j \in Jobs : ArchiveRemove(j)
    \/ Tick

ArchiveSpec == Init /\ [][ArchiveNext]_vars

----------------------------------------------------------------------------
(* MediaConverter: the FFmpeg options of a conversion *)

\* qualityMap of applySimpleFormatSettings
qualityMap(quality) ==
    CASE quality = "low" -> [crf |-> "28", bitrate |-> "500k", audioBitrate |-> "96k"]
      [] quality = "medium" -> [crf |-> "23", bitrate |-> "1000k", audioBitrate |-> "128k"]
      [] quality = "high" -> [crf |-> "18", bitrate |-> "2000k", audioBitrate |-> "192k"]

getJpegQuality(quality) ==
    CASE quality = "low" -> "8"
      [] quality = "medium" -> "5"
      [] quality = "high" -> "2"
      [] OTHER -> "5"

\* videoExtensions of isVideoFile
videoExtensions ==
    {".mp4", ".avi", ".mov", ".mkv", ".webm", ".flv", ".mpeg", ".mpg", ".wmv",
     ".3gp", ".m4v"}

isVideoFile(extension) == Join(toLowerCase(extension)) \in videoExtensions

\* applySimpleFormatSettings: the output options it adds to the command
applySimpleFormatSettings(format, inputExt, quality) ==
    LET outputFormat == Join(toLowerCase(format))
        qualitySettings == qualityMap(quality)
    IN  CASE outputFormat \in {"mp4", "mov", "webm"} -> {<<"-crf", qualitySettings.crf>>}
          [] outputFormat = "avi" -> {<<"-b:v", qualitySettings.bitrate>>}
          [] outputFormat \in {"mp3", "aac", "ogg"} ->
                {<<"-b:a", qualitySettings.audioBitrate>>}
          [] outputFormat \in {"jpg", "jpeg"} ->
                {<<"-vframes", "1">>, <<"-q:v", getJpegQuality(quality)>>}
          [] outputFormat \in {"png", "bmp", "tiff", "tif"} -> {<<"-vframes", "1">>}
          [] outputFormat = "gif" ->
                IF isVideoFile(inputExt)
                THEN {<<"-vf", "fps=10,scale=320:-1:flags=lanczos">>, <<"-t", "10">>}
                ELSE {<<"-vframes", "1">>}
          [] outputFormat = "webp" -> {<<"-vframes", "1">>, <<"-quality", "80">>}
          [] OTHER -> {}

\* the output options of convertWithFFmpeg for an upload named originalname and
\* the format field of the request: the route adds the dot, convertMedia
\* slices it off, convertWithFFmpeg takes the extension of the input path
ffmpegOptions(originalname, format, quality) ==
    LET outputFormat == outputFormatOf(format)
        mediaFormat == IF startsWith(outputFormat, ".") THEN Tail(outputFormat)
                       ELSE outputFormat
        inputExt == toLowerCase(extname(originalname))
    IN  {<<"-y">>} \cup applySimpleFormatSettings(mediaFormat, inputExt, quality)

\* uploads MediaConverter is called with
MediaNames ==
    {
      <<"a", ".", "m", "p", "4">>, <<"a", ".", "M", "K", "V">>,
      <<"a", ".", "t", "s">>, <<"a", ".", "o", "g", "v">>,
      <<"a", ".", "g", "i", "f">>, <<"a", ".", "p", "n", "g">>,
      <<"a", ".", "j", "p", "g">>, <<"a", ".", "m", "p", "3">>
    }

\* target formats of media conversions
MediaFormats ==
    {
      <<"j", "p", "g">>, <<"j", "p", "e", "g">>, <<"p", "n", "g">>,
      <<"b", "m", "p">>, <<"w", "e", "b", "p">>, <<"t", "i", "f", "f">>,
      <<"g", "i", "f">>, <<"G", "I", "F">>, <<"m", "p", "4">>,
      <<"m", "p", "3">>
    }

----------------------------------------------------------------------------
(* Calls of the pure functions of FileUtils and of the convert handler *)

\* filenames the classifier is called with
ClassifierNames ==
    {
      <<"a", ".", "m", "p", "4">>, <<"a", ".", "M", "P", "4">>,
      <<"a", ".", "g", "i", "f">>, <<"a", ".", "m", "p", "3">>,
      <<"a", ".", "p", "n", "g">>, <<"a", ".", "t", "x", "t">>,
      <<"a", ".", "T", "X", "T">>, <<"b", ".", "t", "x", "t">>,
      <<"a", ".", "M", "d">>, <<"a", ".", "p", "d", "f">>,
      <<"a", ".", "z", "i", "p">>, <<"a", ".", "t", "g", "z">>,
      <<"a", ".", "t", "a", "r", ".", "g", "z">>,
      <<"a", ".", "b", ".", "t", "x", "t">>, <<"a", ".", "c", "s", "v">>,
      <<"a", ".", "t", "s", "v">>, <<"a", ".", "x", "l", "s">>,
      <<"a", ".", "x", "l", "s", "x">>, <<"a", ".", "o", "d", "s">>,
      <<"a", ".", "p", "p", "t">>, <<"a", ".", "p", "p", "t", "x">>,
      <<"a", ".", "o", "d", "p">>, <<"a", ".", "x", "y", "z">>, <<"a">>,
      <<"a", ".">>, <<".", "t", "x", "t">>, <<"t", "x", "t">>
    }

\* format fields the convert handler normalises (an empty one is rejected before)
FormatInputs ==
    {
      <<"m", "d">>, <<".", "m", "d">>, <<"M", "D">>, <<".", "M", "D">>,
      <<"M", "d">>, <<"p", "d", "f">>, <<".", "p", "d", "f">>,
      <<".", ".", "m", "d">>
    }

\* input extensions SpreadsheetConverter takes
spreadsheetExtensions == {".csv", ".tsv", ".xls", ".xlsx", ".ods"}

\* input extensions PresentationConverter takes
presentationExtensions == {".ppt", ".pptx", ".odp"}

\* the converter the switch of POST /api/convert hands a file of fileType to
converterFor(fileType) ==
    CASE fileType = "document" -> "documentConverter"
      [] fileType = "spreadsheet" -> "spreadsheetConverter"
      [] fileType = "presentation" -> "presentationConverter"
      [] fileType \in {"video", "audio", "image"} -> "mediaConverter"
      [] fileType = "archive" -> "archiveConverter"
      [] OTHER -> "throw"

\* what POST /api/convert does with an upload named originalname: fileFilter
\* rejects it, or the switch picks its converter
dispatch(originalname) ==
    IF getFileType(originalname) = "unknown"
    THEN "rejected"
    ELSE converterFor(getFileType(originalname))

Called(fn, arg, result) ==
    /\ Len(evals) < NumEval
    /\ evals' = Append(evals, [fn |-> fn, arg |-> arg, result |-> result])
    /\ UNCHANGED <<now, phase, uploads, outFiles, fileRecords, timers, del, conv, dl,
                   services>>

EvalGetFileType(filename) == Called("getFileType", filename, getFileType(filename))

EvalIsValidFileType(filename) == Called("isValidFileType", filename, isValidFileType(filename))

EvalDispatch(originalname) == Called("dispatch", originalname, dispatch(originalname))

EvalOutputFormat(format) == Called("outputFormat", format, outputFormatOf(format))

EvalFFmpegOptions(originalname, format, quality) ==
    Called("ffmpegOptions", [originalname |-> originalname, format |-> format],
           ffmpegOptions(originalname, format, quality))

\* GET /api/formats lists format under category; the classifier is called with
\* a filename that ends in "." followed by format
EvalAdvertised(category, format) ==
    Called("advertised", [category |-> category, format |-> format],
           getFileType(<<"a", ".">> \o Chars(format)))

EvalNext ==
    \/ \E filename \in ClassifierNames : EvalGetFileType(filename)
    \/ \E filename \in ClassifierNames : EvalIsValidFileType(filename)
    \/ \E originalname \in ClassifierNames : EvalDispatch(originalname)
    \/ \E format \in FormatInputs : EvalOutputFormat(format)
    \/ \E originalname \in MediaNames, format \in MediaFormats, quality \in {"low", "high"} :
          EvalFFmpegOptions(originalname, format, quality)
    \/ \E category \in {"video", "audio", "image", "document", "archive"} :
          \E format \in getSupportedFormats(category) : EvalAdvertised(category, format)

EvalSpec == Init /\ [][EvalNext]_vars

----------------------------------------------------------------------------
(* Vocabulary of the properties *)

\* every filename an output file, a record or a download request can carry
Filenames ==
    DownloadNames \cup
    {outputFilenameOf(f, g) : f \in {x \in OriginalNames : getFileType(x) # "unknown"},
                              g \in TargetFormats}

\* the pending timers set for filename
PendingFor(ts, filename) == {t \in ts : t.filename = filename}

\* a convert handler between its first await and its response
InFlight(r) == conv[r].pc \in {"converting", "removeInput", "catchRemove"}

\* the step in which convert handler r calls trackFile and sends 200
TrackStep(r) == conv[r].pc = "removeInput" /\ conv'[r].pc = "done" /\ conv'[r].status = 200

\* the step in which download handler d receives its request
RequestStep(d) == dl[d].pc = "idle" /\ dl'[d].pc # "idle"

\* the step in which the stream of download handler d ends and stopTracking is called
StopStep(d) == dl[d].pc = "streaming" /\ dl'[d].pc = "remove"

\* the step in which fs.pathExists answers download handler d
ExistsStep(d) == dl[d].pc = "pathExists" /\ dl'[d].pc \notin {"pathExists", "idle"}

\* the record of filename is present and its window has not elapsed
Unexpired(filename) ==
    /\ filename \in DOMAIN fileRecords
    /\ now - fileRecords[filename].createdAt <= FILE_EXPIRY_TIME

----------------------------------------------------------------------------
(* C1: two convert requests for two different stored uploads that are in     *)
(* flight at the same time write to distinct output paths (and so register  *)
(* distinct artifact filenames).                                            *)
C1_DistinctOutputPaths ==
    \A r, q \in Convs :
        (r # q /\ InFlight(r) /\ InFlight(q) /\ conv[r].path # conv[q].path)
            => conv[r].outputFilename # conv[q].outputFilename

(* C2: when a convert request whose upload was stored has been answered, the *)
(* uploaded input file is no longer on disk and fs.remove was called on it  *)
(* exactly once.                                                            *)
C2_InputDeletedExactlyOnce ==
    \A r \in Convs :
        (conv[r].pc = "done" /\ conv[r].path # None)
            => (conv[r].path \notin uploads /\ conv[r].removes = 1)

(* C3: in every reachable state isFileExpired(name) is true for every       *)
(* filename that has no record in the registry.                             *)
C3_UntrackedIsExpired ==
    \A f \in Filenames : f \notin DOMAIN fileRecords => isFileExpired(f)

\* a filename whose record the expiry action removed (it was tracked by a
\* successful conversion, nothing was downloaded, the process runs) and a
\* filename that was never tracked are both expired
C3_Witness ==
    /\ phase = "running"
    /\ \A d \in Dls : dl[d].pc = "idle"
    /\ \E r \in Convs :
          /\ conv[r].status = 200
          /\ conv[r].convertedName \notin DOMAIN fileRecords
          /\ isFileExpired(conv[r].convertedName)
    /\ \E f \in Filenames :
          /\ \A r \in Convs : conv[r].outputFilename # f
          /\ isFileExpired(f)

(* C4: trackFile(name) stamps the record with the time of the call and      *)
(* makes isFileExpired(name) false at once; only trackFile changes a        *)
(* record; and isFileExpired(name) turns true only in a step that removes   *)
(* the record of name or that takes the clock more than FILE_EXPIRY_TIME    *)
(* past the trackFile call that made the record.                            *)
C4_FreshUntilWindowOrRemoval ==
    [][ /\ \A r \in Convs :
              TrackStep(r) => /\ ~isFileExpired(conv[r].outputFilename)'
                              /\ fileRecords'[conv[r].outputFilename].createdAt = now'
        /\ \A f \in Filenames :
              (f \in DOMAIN fileRecords /\ f \in DOMAIN fileRecords'
                 /\ fileRecords'[f] # fileRecords[f])
                  => \E r \in Convs : TrackStep(r) /\ conv[r].outputFilename = f
        /\ \A f \in Filenames :
              (~isFileExpired(f) /\ isFileExpired(f)')
                  => \/ f \notin DOMAIN fileRecords'
                     \/ /\ fileRecords'[f] = fileRecords[f]
                        /\ now' - fileRecords[f].createdAt > FILE_EXPIRY_TIME
      ]_vars

\* a record whose window has elapsed to the millisecond is still unexpired
C4_Witness ==
    \E r \in Convs :
        /\ conv[r].status = 200
        /\ conv[r].convertedName \in DOMAIN fileRecords
        /\ fileRecords[conv[r].convertedName].timeout = r
        /\ now - fileRecords[conv[r].convertedName].createdAt = FILE_EXPIRY_TIME
        /\ ~isFileExpired(conv[r].convertedName)

(* C5: trackFile(name) on a tracked name replaces the record: the registry   *)
(* does not grow, the only pending timer of name is the new one, due        *)
(* FILE_EXPIRY_TIME after this call, and createdAt is the time of this call;*)
(* a name never has two pending timers, and a timer that fires is the timer *)
(* of the current record of its name, due FILE_EXPIRY_TIME after createdAt. *)
C5_RetrackReplaces ==
    /\ [](\A f \in Filenames : Cardinality(PendingFor(timers, f)) <= 1)
    /\ [][ /\ \A r \in Convs :
                 (TrackStep(r) /\ conv[r].outputFilename \in DOMAIN fileRecords)
                     => /\ DOMAIN fileRecords' = DOMAIN fileRecords
                        /\ PendingFor(timers', conv[r].outputFilename) =
                             {[id |-> r, filename |-> conv[r].outputFilename,
                               due |-> now + FILE_EXPIRY_TIME]}
                        /\ fileRecords'[conv[r].outputFilename] =
                             [createdAt |-> now, timeout |-> r]
           /\ \A t \in timers :
                 (t \notin timers' /\ t.id \in DOMAIN del' /\ t.id \notin DOMAIN del)
                     => /\ t.filename \in DOMAIN fileRecords
                        /\ fileRecords[t.filename].timeout = t.id
                        /\ t.due = fileRecords[t.filename].createdAt + FILE_EXPIRY_TIME
         ]_vars

\* the second conversion of the same output filename has re-tracked it while
\* the timer of the first was pending; later than the first timer's due time
\* the record is still there and unexpired
C5_Witness ==
    \E r, q \in Convs :
        /\ r # q
        /\ conv[r].status = 200 /\ conv[q].status = 200
        /\ conv[r].convertedName = conv[q].convertedName
        /\ conv[q].convertedName \in DOMAIN fileRecords
        /\ fileRecords[conv[q].convertedName].timeout = q
        /\ fileRecords[conv[q].convertedName].createdAt > 0
        /\ r \notin DOMAIN del
        /\ PendingFor(timers, conv[q].convertedName) # {}
        /\ now >= FILE_EXPIRY_TIME
        /\ ~isFileExpired(conv[q].convertedName)

(* C6: the stopTracking(name) call of a download's 'end' leaves name without *)
(* record and without pending timer, so isFileExpired(name) is true; it     *)
(* changes no file on disk and no record or timer of another filename, and  *)
(* on an untracked name it changes nothing.                                 *)
C6_StopTrackingFrame ==
    [][ \A d \in Dls :
          StopStep(d) =>
            /\ dl[d].filename \notin DOMAIN fileRecords'
            /\ PendingFor(timers', dl[d].filename) = {}
            /\ isFileExpired(dl[d].filename)'
            /\ outFiles' = outFiles
            /\ uploads' = uploads
            /\ \A f \in Filenames \ {dl[d].filename} :
                  /\ (f \in DOMAIN fileRecords') = (f \in DOMAIN fileRecords)
                  /\ f \in DOMAIN fileRecords => fileRecords'[f] = fileRecords[f]
                  /\ PendingFor(timers', f) = PendingFor(timers, f)
            /\ dl[d].filename \notin DOMAIN fileRecords
                  => (fileRecords' = fileRecords /\ timers' = timers)
      ]_vars

\* after stopTracking of a name whose timer was pending: the file is still on
\* disk, the name is untracked, and another filename keeps its record and timer
C6_Witness ==
    \E d \in Dls :
        /\ dl[d].pc = "remove"
        /\ dl[d].filename \in DOMAIN outFiles
        /\ dl[d].filename \notin DOMAIN fileRecords
        /\ isFileExpired(dl[d].filename)
        /\ \E f \in DOMAIN fileRecords : PendingFor(timers, f) # {}

(* C7: a download request for a filename that is untracked or whose window  *)
(* has elapsed is answered 410 at once, whether or not the file exists; a   *)
(* request that passed the expiry check and finds no file is answered 404;  *)
(* a handler that answered 410 or 404 has streamed nothing and has deleted  *)
(* no file.                                                                 *)
C7_ExpiredOrMissing ==
    /\ [](\A d \in Dls :
             dl[d].status \in {404, 410} => (dl[d].pc = "done" /\ dl[d].content = 0))
    /\ [][ \A d \in Dls :
             /\ (RequestStep(d) /\ ~Unexpired(dl'[d].filename))
                   => /\ dl'[d].status = 410
                      /\ dl'[d].pc = "done"
                      /\ outFiles' = outFiles
             /\ (RequestStep(d) /\ Unexpired(dl'[d].filename))
                   => dl'[d].status # 410
             /\ (ExistsStep(d) /\ dl[d].filename \notin DOMAIN outFiles)
                   => /\ dl'[d].status = 404
                      /\ dl'[d].pc = "done"
                      /\ outFiles' = outFiles
         ]_vars

\* one request was answered 410 for a filename whose file is on disk, another
\* was answered 404
C7_Witness ==
    \E d, e \in Dls :
        /\ dl[d].status = 410
        /\ dl[d].filename \in DOMAIN outFiles
        /\ dl[e].status = 404

(* C8: a download request for a tracked artifact received before its window *)
(* has elapsed (it passed the expiry check), no other download of that      *)
(* filename being made, ends with status 200 and the artifact's content.    *)
C8_DownloadWithinWindow ==
    \A d \in Dls :
        (/\ dl[d].pc = "done"
         /\ dl[d].status # 410
         /\ \A e \in Dls \ {d} : dl[e].filename # dl[d].filename)
            => (dl[d].status = 200 /\ dl[d].content \in Convs)

(* C9: once a download has streamed to its end and its handler has finished, *)
(* the filename has no record, no pending timer and no file in the output   *)
(* directory.                                                               *)
C9_DownloadedIsGone ==
    \A d \in Dls :
        (dl[d].pc = "done" /\ dl[d].status = 200)
            => /\ dl[d].filename \notin DOMAIN fileRecords
               /\ PendingFor(timers, dl[d].filename) = {}
               /\ dl[d].filename \notin DOMAIN outFiles

(* C10: the expiry action never deletes the file of a filename while a      *)
(* download of that filename has passed the expiry check and has not yet    *)
(* finished streaming.                                                      *)
C10_NoExpiryUnderDownload ==
    [][ \A f \in Filenames :
          (f \in DOMAIN outFiles /\ f \notin DOMAIN outFiles' /\ del' # del)
              => \A d \in Dls :
                    ~(dl[d].filename = f /\
                      dl[d].pc \in {"pathExists", "stat", "open", "streaming"})
      ]_vars

\* the step in which the deleteFile call started by timer id ends
ExpiryEndStep(id) == id \in DOMAIN del /\ id \notin DOMAIN del' /\ phase' = "running"

(* C11: when trackFile(name) was called after the timer of an earlier        *)
(* tracking of name fired and before that expiry action finished (the       *)
(* record of name belongs to another timer than the one whose deleteFile is *)
(* ending), the ending expiry leaves the file, the record and the pending   *)
(* timer of name as they are.                                               *)
C11_ExpirySerialized ==
    [][ \A id \in DOMAIN del :
          (/\ ExpiryEndStep(id)
           /\ del[id].filename \in DOMAIN fileRecords
           /\ fileRecords[del[id].filename].timeout # id)
            => /\ outFiles' = outFiles
               /\ del[id].filename \in DOMAIN fileRecords'
               /\ fileRecords'[del[id].filename] = fileRecords[del[id].filename]
               /\ PendingFor(timers', del[id].filename) =
                    PendingFor(timers, del[id].filename)
      ]_vars

(* C12: the deleteFile call a fired expiry timer started always ends with    *)
(* the filename untracked and no file of that name in the output directory. *)
C12_FiredLeavesNothing ==
    [][ \A id \in DOMAIN del :
          ExpiryEndStep(id)
            => /\ del[id].filename \notin DOMAIN fileRecords'
               /\ del[id].filename \notin DOMAIN outFiles'
      ]_vars

\* the step in which SIGINT / SIGTERM is handled: cleanup(), then the exit
CleanupStep == phase = "running" /\ phase' = "exited"

(* C13: cleanup() leaves the registry empty and no expiry timer pending and *)
(* changes no file of either directory; once it has returned, no expiry     *)
(* timer is pending and no expiry action runs.                              *)
C13_CleanupFrame ==
    /\ [][ CleanupStep => /\ fileRecords' = EmptyMap
                          /\ timers' = {}
                          /\ outFiles' = outFiles
                          /\ uploads' = uploads ]_vars
    /\ [](phase = "exited" => (fileRecords = EmptyMap /\ timers = {} /\ del = EmptyMap))
    /\ [][ phase = "exited" => (del' = del /\ outFiles' = outFiles) ]_vars

\* the process has exited before the first expiry window elapsed: the
\* artifacts are on disk, the registry is empty and no timer is pending
C13_Witness ==
    /\ phase = "exited"
    /\ now < FILE_EXPIRY_TIME
    /\ uploads = {}
    /\ outFiles # EmptyMap
    /\ fileRecords = EmptyMap
    /\ timers = {}

\* a file of either directory that a previous process left behind
OldFilePresent ==
    \/ uploads \cap OldUploads # {}
    \/ \E f \in DOMAIN outFiles : outFiles[f] = 0

(* C14: in every state in which the server has accepted a request, no file   *)
(* that existed before the process started is present in the uploads or the *)
(* output directory.                                                        *)
C14_SweptBeforeTraffic ==
    ((\E r \in Convs : conv[r].pc # "idle") \/ (\E d \in Dls : dl[d].pc # "idle"))
        => ~OldFilePresent

\* the step in which convert handler r sends the success response
SuccessStep(r) == conv[r].status # 200 /\ conv'[r].status = 200

(* C15: in the state in which a convert handler has sent its success        *)
(* response, the name it returned (convertedName, and downloadUrl built     *)
(* from the same string) is the output filename of the request and has a    *)
(* record in the registry, made by this handler's trackFile call, with its  *)
(* timer pending; a handler with status 200 has returned exactly that name. *)
C15_SuccessIsTracked ==
    /\ [](\A r \in Convs :
             conv[r].status = 200
                 => (conv[r].pc = "done" /\ conv[r].convertedName = conv[r].outputFilename))
    /\ [][ \A r \in Convs :
             SuccessStep(r)
                 => /\ conv'[r].convertedName \in DOMAIN fileRecords'
                    /\ fileRecords'[conv'[r].convertedName] = [createdAt |-> now, timeout |-> r]
                    /\ PendingFor(timers', conv'[r].convertedName) =
                         {[id |-> r, filename |-> conv'[r].convertedName,
                           due |-> now + FILE_EXPIRY_TIME]}
         ]_vars

\* a success response was sent and the returned name is tracked, its file on disk
C15_Witness ==
    \E r \in Convs :
        /\ conv[r].status = 200
        /\ conv[r].convertedName \in DOMAIN fileRecords
        /\ fileRecords[conv[r].convertedName].timeout = r
        /\ conv[r].convertedName \in DOMAIN outFiles

\* the request of convert handler r carried no file, no target format, or a
\* file of unknown category
FailsValidation(r) ==
    \/ conv[r].originalname = None
    \/ conv[r].format = None
    \/ getFileType(conv[r].originalname) = "unknown"

(* C16: every convert request that carried no file, no target format or a   *)
(* file of unknown category is answered with status 400.                    *)
C16_ValidationIs400 ==
    \A r \in Convs :
        (conv[r].pc = "done" /\ FailsValidation(r)) => conv[r].status = 400

\* the step in which fs.remove(inputPath), called after the converter
\* succeeded, ends for convert handler r
InputRemoveStep(r) == conv[r].pc = "removeInput" /\ conv'[r].pc \notin {"removeInput", "idle"}

(* C17: when the conversion succeeded, the handler sends the success         *)
(* response and registers the output artifact whether deleting the uploaded *)
(* input file worked or failed.                                             *)
C17_DeleteFailureSwallowed ==
    [][ \A r \in Convs :
          InputRemoveStep(r)
            => /\ conv'[r].status = 200
               /\ conv[r].outputFilename \in DOMAIN fileRecords'
               /\ fileRecords'[conv[r].outputFilename].timeout = r
      ]_vars

\* the calls made so far
EvalIds == 1..Len(evals)

\* the lower-cased extension of a filename, as one string
LowerExt(filename) == Join(toLowerCase(extname(filename)))

\* every extension of the five format tables
TableExtensions ==
    videoFormats \cup audioFormats \cup imageFormats \cup documentFormats \cup archiveFormats

(* C18: every getFileType call returns one category; two calls on filenames *)
(* with the same lower-cased extension return the same category; the        *)
(* category is 'unknown' exactly when the lower-cased extension is in no    *)
(* format table (a filename without extension included), and otherwise the  *)
(* extension is in the table of the category; isValidFileType(filename) is  *)
(* true exactly when the category of filename is not 'unknown'.             *)
C18_ClassifierTotal ==
    /\ \A i \in EvalIds :
          evals[i].fn = "getFileType"
            => /\ evals[i].result \in
                    {"video", "audio", "image", "document", "archive", "unknown"}
               /\ (evals[i].result = "unknown") <=> (LowerExt(evals[i].arg) \notin TableExtensions)
               /\ evals[i].result = "video" => LowerExt(evals[i].arg) \in videoFormats
               /\ evals[i].result = "audio" => LowerExt(evals[i].arg) \in audioFormats
               /\ evals[i].result = "image" => LowerExt(evals[i].arg) \in imageFormats
               /\ evals[i].result = "document" => LowerExt(evals[i].arg) \in documentFormats
               /\ evals[i].result = "archive" => LowerExt(evals[i].arg) \in archiveFormats
    /\ \A i, j \in EvalIds :
          (/\ evals[i].fn = "getFileType" /\ evals[j].fn = "getFileType"
           /\ LowerExt(evals[i].arg) = LowerExt(evals[j].arg))
            => evals[i].result = evals[j].result
    /\ \A i \in EvalIds :
          evals[i].fn = "isValidFileType"
            => /\ evals[i].result \in BOOLEAN
               /\ evals[i].result <=> (LowerExt(evals[i].arg) \in TableExtensions)
    /\ \A i, j \in EvalIds :
          (/\ evals[i].fn = "getFileType" /\ evals[j].fn = "isValidFileType"
           /\ evals[i].arg = evals[j].arg)
            => (evals[j].result <=> (evals[i].result # "unknown"))

\* a filename with an upper-case extension was classified as a document and
\* found valid
C18_Witness ==
    /\ Len(evals) = 2
    /\ evals[1] = [fn |-> "getFileType", arg |-> <<"a", ".", "T", "X", "T">>,
                   result |-> "document"]
    /\ evals[2] = [fn |-> "isValidFileType", arg |-> <<"a", ".", "T", "X", "T">>,
                   result |-> TRUE]

(* C19: a filename with a spreadsheet extension is classified as            *)
(* spreadsheet and its upload handed to the SpreadsheetConverter; a         *)
(* filename with a presentation extension is classified as presentation and *)
(* its upload handed to the PresentationConverter.                          *)
C19_OfficeCategoriesDispatched ==
    \A i \in EvalIds :
        /\ (evals[i].fn = "getFileType" /\ LowerExt(evals[i].arg) \in spreadsheetExtensions)
              => evals[i].result = "spreadsheet"
        /\ (evals[i].fn = "dispatch" /\ LowerExt(evals[i].arg) \in spreadsheetExtensions)
              => evals[i].result = "spreadsheetConverter"
        /\ (evals[i].fn = "getFileType" /\ LowerExt(evals[i].arg) \in presentationExtensions)
              => evals[i].result = "presentation"
        /\ (evals[i].fn = "dispatch" /\ LowerExt(evals[i].arg) \in presentationExtensions)
              => evals[i].result = "presentationConverter"

(* C20: the output format of a requested format is lower-case and starts    *)
(* with exactly one dot: 'md', '.md', 'MD' and '.MD' all give '.md', and a  *)
(* format already in that form is returned unchanged.                       *)
C20_FormatCanonical ==
    \A i \in EvalIds :
        evals[i].fn = "outputFormat"
          => /\ evals[i].result = toLowerCase(evals[i].result)
             /\ startsWith(evals[i].result, ".")
             /\ ~startsWith(Tail(evals[i].result), ".")
             /\ evals[i].arg \in { <<"m", "d">>, <<".", "m", "d">>,
                                   <<"M", "D">>, <<".", "M", "D">> }
                  => evals[i].result = <<".", "m", "d">>
             /\ (/\ evals[i].arg = toLowerCase(evals[i].arg)
                 /\ startsWith(evals[i].arg, ".")
                 /\ ~startsWith(Tail(evals[i].arg), "."))
                  => evals[i].result = evals[i].arg

(* C28: every pending expiry timer is the timer of the record stored under  *)
(* its filename, no filename has two pending timers, and the timer of every *)
(* record is pending or its expiry action is in progress.                   *)
C28_TimersMatchRecords ==
    /\ \A t \in timers :
          /\ t.filename \in DOMAIN fileRecords
          /\ fileRecords[t.filename].timeout = t.id
    /\ \A f \in DOMAIN fileRecords : Cardinality(PendingFor(timers, f)) <= 1
    /\ \A f \in DOMAIN fileRecords :
          \/ \E t \in timers : t.id = fileRecords[f].timeout /\ t.filename = f
          \/ /\ fileRecords[f].timeout \in DOMAIN del
             /\ del[fileRecords[f].timeout].filename = f

(* C29: no two download requests are answered 200 with the content of the  *)
(* same artifact (the same filename written by the same conversion).        *)
C29_OneDownloadPerArtifact ==
    \A d, e \in Dls :
        (d # e /\ dl[d].status = 200 /\ dl[e].status = 200
               /\ dl[d].filename = dl[e].filename)
            => dl[d].content # dl[e].content

(* C30: for every format GET /api/formats lists under a category, the       *)
(* classifier puts a filename that ends in "." followed by the format in    *)
(* that category.                                                           *)
C30_AdvertisedIsClassified ==
    \A i \in EvalIds :
        evals[i].fn = "advertised" => evals[i].result = evals[i].arg.category

\* the target format of an ffmpegOptions call, lower-cased, as one string
TargetOf(i) == Join(toLowerCase(evals[i].arg.format))

(* C22: in a conversion to a still-image format the option -vframes 1 is    *)
(* applied when the input is classified as video and is not applied when    *)
(* the input is classified as image.                                        *)
C22_FrameExtractionOnlyForVideo ==
    \A i \in EvalIds :
        (/\ evals[i].fn = "ffmpegOptions"
         /\ TargetOf(i) \in {"jpg", "jpeg", "png", "bmp", "webp", "tiff"})
          => /\ getFileType(evals[i].arg.originalname) = "video"
                  => <<"-vframes", "1">> \in evals[i].result
             /\ getFileType(evals[i].arg.originalname) = "image"
                  => <<"-vframes", "1">> \notin evals[i].result

(* C23: a conversion to gif of an input the classifier puts in the video    *)
(* category applies the duration cap -t 10 and the filter fps=10 with scale *)
(* 320.                                                                     *)
C23_GifCapForVideo ==
    \A i \in EvalIds :
        (/\ evals[i].fn = "ffmpegOptions"
         /\ TargetOf(i) = "gif"
         /\ getFileType(evals[i].arg.originalname) = "video")
          => /\ <<"-t", "10">> \in evals[i].result
             /\ <<"-vf", "fps=10,scale=320:-1:flags=lanczos">> \in evals[i].result

----------------------------------------------------------------------------
(* Converters without backends *)

ProbeFinished == converter.probe = Len(probeSteps(converter.family))

\* the probe has run and has left the converter without any capability
NothingDetected == ProbeFinished /\ converter.tools = {} /\ supportedFormats = {}

----------------------------------------------------------------------------
(* Fallback between backends *)

Range(seq) == {seq[i] : i \in DOMAIN seq}

\* the backends able to produce format: the media tools other than FFmpeg
\* write images only; the text formats of a spreadsheet are left to the
\* converter's own text conversion; each office backend writes every office
\* format
CapableOf(family, format) ==
    CASE family = "media" /\ ~isImageFormat(format) -> {"ffmpeg"}
      [] family = "spreadsheet" /\ isTextFormat(format) -> builtin
      [] OTHER -> backendsOf(family)

\* the job was reported as failed by a backend chain
ChainFailed(j) ==
    jobs[j].pc = "done" /\ jobs[j].status = 500 /\ jobs[j].error # "unsupported"

\* C24: a job is reported as failed only after every backend that was
\* detected when the job started, and that can produce the target format,
\* has been attempted for it.
C24_FailedAfterAllBackends ==
    \A j \in Jobs :
        ChainFailed(j) =>
            \A backend \in CapableOf(converter.family, jobs[j].format) :
                backend \in jobs[j].flags => backend \in Range(jobs[j].tried)

NoDuplicates(seq) == \A i, k \in DOMAIN seq : seq[i] = seq[k] => i = k

\* a step in which a backend attempt of job j begins
AttemptBegins(j) == Len(jobs'[j].tried) > Len(jobs[j].tried)

\* C25: a job has at most one backend attempt active; an attempt begins only
\* when no other attempt of the job is still active and none has succeeded,
\* it is the only active one afterwards, and its backend was not attempted
\* for the job before; after a success no attempt is active or begins.
C25_AttemptsSequential ==
    [][\A j \in Jobs :
          /\ Cardinality(jobs'[j].running) <= 1
          /\ NoDuplicates(jobs'[j].tried)
          /\ AttemptBegins(j) =>
                /\ jobs[j].pc # "done"
                /\ jobs[j].running \cap jobs'[j].running = {}
                /\ jobs'[j].running = {jobs'[j].tried[Len(jobs'[j].tried)]}
                /\ jobs'[j].tried[Len(jobs'[j].tried)] \notin Range(jobs[j].tried)
          /\ jobs[j].status = 200 => jobs'[j].running = {} /\ ~AttemptBegins(j)
          /\ jobs'[j].running # {} => jobs'[j].pc = "running"]_vars

\* a job succeeded with its second backend after the first one had failed,
\* and a later job was handled after it
C25_Witness ==
    /\ jobs[1].pc = "done"
    /\ jobs[1].status = 200
    /\ Len(jobs[1].tried) = 2
    /\ jobs[2].pc = "done"
    /\ Len(jobs[2].tried) >= 3

----------------------------------------------------------------------------
(* Conversions during the probe *)

\* the backend whose attempt begins in this step of job j
Begun(j) == jobs'[j].tried[Len(jobs'[j].tried)]

\* C26: while the probe of the converter has not finished, a job only
\* invokes a backend the probe has already confirmed (or the converter's own
\* text conversion, which needs no probe).
C26_UnconfirmedNeverInvoked ==
    [][\A j \in Jobs :
          (AttemptBegins(j) /\ ~ProbeFinished) =>
              Begun(j) \in converter.tools \cup builtin]_vars

----------------------------------------------------------------------------
(* The temporary directory of an archive conversion *)

\* C27: once convertArchiveFormat has returned or thrown for a job, the
\* temporary directory of that job does not exist.
C27_TempDirGone ==
    \A j \in Jobs : arch[j].pc = "done" => arch[j].tempDir \notin tempDirs

====
